---- MODULE Spec2Model ----
(***************************************************************************)
(* The download lifecycle of the e-book library application: the durable   *)
(* download_history / user_stats tables of DownloadsDBManager, the HTTP    *)
(* handlers that write and read them, and the in-memory queue they are     *)
(* reconciled against.                                                     *)
(***************************************************************************)
EXTENDS Integers, FiniteSets, Sequences, TLC

\* ------------------------------------------------------------------ bounds
\* Rows the download_history table may hold.
MaxRecords == 2
\* Rows inserted by the store calls made under storage faults.
MaxFaultRecords == 1
\* Calls of is_rate_limited in a run.
MaxCalls == 4

\* ------------------------------------------------------------- value sets
Users == {"alice", "bob"}
Books == {"b1", "b2"}
\* SQL NULL / Python None.
NULL == "NULL"
\* What a call that returns nothing leaves in ret.
NoReturn == <<>>
\* The URL values a worker can discover for a book.
Urls == {"u1"}
\* File sizes a worker reports on completion.
FileSizes == {1048576}
\* The value of a TIMESTAMP column once it has been stamped. A column is
\* either NULL or stamped; a write that stamps a column which is already
\* stamped replaces its value by a later datetime.now().
Stamped == "CURRENT_TIMESTAMP"
\* SQL NULL in the INTEGER column file_size.
NoFileSize == -1
\* The title and author of the BookInfo a client queues for a book.
book_title(book_id) == "Title of " \o book_id
book_author(book_id) == "Author of " \o book_id

\* The CHECK constraint of download_history.status.
Statuses == {"queued", "processing", "downloading", "waiting", "completed", "error", "cancelled"}
\* The statuses the durable store treats as active (cancel_phantom_downloads).
ActiveStatuses == {"queued", "processing", "downloading", "waiting"}
\* The statuses update_download_status treats as final.
FinalStatuses == {"completed", "error", "cancelled"}
\* The statuses cleanup_phantom_downloads_on_startup rewrites.
StartupPhantomStatuses == {"downloading", "processing", "waiting"}

\* The error_message texts the code writes.
PhantomMsg == "Cancelled via phantom removal - queue desync detected"
StartupMsg == "Auto-cancelled on server startup - downloads cannot persist across restarts"
ManualMsg == "Manually cancelled via remove tracking"
RedownloadFailedMsg == "Direct re-download failed"
RedownloadErrorMsg == "Direct re-download error"
WorkerErrorMsg == "download failed"

VARIABLES
    download_history,   \* table download_history: id -> row
    last_id,            \* AUTOINCREMENT counter of download_history
    user_stats,         \* table user_stats: username -> cached row
    live,               \* the in-memory queue: book_id -> bucket, or NULL
    worker,             \* position of the worker driving each record
    proc,               \* "serving" or "down"
    stale,              \* ids whose status was last written by an earlier process
    url_failed,         \* ids mark_url_failed has been applied to
    lastOp,             \* the operation last executed
    ret                 \* what it returned

\* The state of the RateLimiter of utils/rate_limiter.py and of the calls of
\* is_rate_limited in progress.
VARIABLES
    now,                \* time.time()
    requests,           \* _requests of one user key: endpoint -> bag of timestamps
    last_cleanup,       \* _last_cleanup
    calls,              \* per thread: where its is_rate_limited call stands
    n_calls,            \* calls of is_rate_limited started so far
    admitted            \* per endpoint, the times of the calls answered 'not limited'

StoreVars == <<download_history, last_id, user_stats, live, worker, proc, stale, url_failed, lastOp, ret>>
RateVars == <<now, requests, last_cleanup, calls, n_calls, admitted>>
vars == <<download_history, last_id, user_stats, live, worker, proc, stale, url_failed, lastOp, ret,
          now, requests, last_cleanup, calls, n_calls, admitted>>

Ids == DOMAIN download_history

\* ---------------------------------------------------- DownloadsDBManager
\* SUM(CASE WHEN file_size IS NOT NULL THEN file_size ELSE 0 END) over rows.
RECURSIVE sum_file_size(_, _)
sum_file_size(dh, rows) ==
    IF rows = {} THEN 0
    ELSE LET i == CHOOSE r \in rows : TRUE
         IN (IF dh[i].file_size # NoFileSize THEN dh[i].file_size ELSE 0)
            + sum_file_size(dh, rows \ {i})

\* The aggregate SELECT of get_user_stats over one user's rows.
calc_user_stats(dh, username) ==
    LET mine == {i \in DOMAIN dh : dh[i].username = username}
    IN [total_downloads |-> Cardinality(mine),
        successful_downloads |-> Cardinality({i \in mine : dh[i].status = "completed"}),
        failed_downloads |-> Cardinality({i \in mine : dh[i].status = "error"}),
        cancelled_downloads |-> Cardinality({i \in mine : dh[i].status = "cancelled"}),
        total_size_bytes |-> sum_file_size(dh, mine)]

\* get_user_stats / _update_user_stats / _cache_user_stats: a cached row is
\* returned as it is; only a missing one is computed and stored.
update_user_stats(us, dh, username) ==
    IF username \in DOMAIN us THEN us
    ELSE [u \in DOMAIN us \cup {username} |->
            IF u = username THEN calc_user_stats(dh, username) ELSE us[u]]

\* The row record_download_queued inserts; the columns it does not name take
\* their DEFAULTs.
new_row(username, book_id) ==
    [username |-> username, book_id |-> book_id, status |-> "queued",
     book_title |-> book_title(book_id), book_author |-> book_author(book_id),
     error_message |-> NULL, file_size |-> NoFileSize,
     started_at |-> NULL, completed_at |-> NULL,
     final_download_url |-> NULL, url_discovered_at |-> NULL,
     can_retry_direct |-> FALSE]

record_download_queued(dh, download_id, username, book_id) ==
    [i \in DOMAIN dh \cup {download_id} |->
        IF i = download_id THEN new_row(username, book_id) ELSE dh[i]]

\* Whether the UPDATE of update_download_status assigns started_at
\* (respectively completed_at) the current time.
stamps_started_at(status, kwargs) ==
    status = "downloading" /\ "started_at" \notin DOMAIN kwargs

stamps_completed_at(status, kwargs) ==
    status \in FinalStatuses /\ "completed_at" \notin DOMAIN kwargs

\* update_download_status without its kwargs loop: only the status is written.
update_download_status_no_kwargs(dh, download_id, status, kwargs) ==
    IF download_id \notin DOMAIN dh THEN dh
    ELSE [dh EXCEPT ![download_id] =
            [@ EXCEPT !.status = status,
                      !.started_at =
                          IF stamps_started_at(status, kwargs) THEN Stamped ELSE @,
                      !.completed_at =
                          IF stamps_completed_at(status, kwargs) THEN Stamped ELSE @]]

\* update_download_status without its completed_at stamp.
update_download_status_no_stamp(dh, download_id, status, kwargs) ==
    IF download_id \notin DOMAIN dh THEN dh
    ELSE [dh EXCEPT ![download_id] =
            [@ EXCEPT !.status = status,
                      !.started_at =
                          IF stamps_started_at(status, kwargs) THEN Stamped ELSE @,
                      !.error_message =
                          IF "error_message" \in DOMAIN kwargs
                          THEN kwargs["error_message"] ELSE @,
                      !.file_size =
                          IF "file_size" \in DOMAIN kwargs
                          THEN kwargs["file_size"] ELSE @]]

\* kwargs is a function from the keyword names the caller passed to their
\* values; only the whitelisted columns are written.
update_download_status(dh, download_id, status, kwargs) ==
    IF download_id \notin DOMAIN dh THEN dh
    ELSE [dh EXCEPT ![download_id] =
            [@ EXCEPT !.status = status,
                      !.started_at =
                          IF stamps_started_at(status, kwargs) THEN Stamped ELSE @,
                      !.completed_at =
                          IF stamps_completed_at(status, kwargs) THEN Stamped ELSE @,
                      !.error_message =
                          IF "error_message" \in DOMAIN kwargs
                          THEN kwargs["error_message"] ELSE @,
                      !.file_size =
                          IF "file_size" \in DOMAIN kwargs
                          THEN kwargs["file_size"] ELSE @]]

\* Python truthiness of an optional string: None and "" are falsy.
truthy(s) == s # NULL /\ s # ""

\* update_download_urls without the can_retry_direct column in its UPDATE.
update_download_urls_no_retry_flag(dh, download_id, final_url) ==
    IF download_id \notin DOMAIN dh \/ ~truthy(final_url) THEN dh
    ELSE [dh EXCEPT ![download_id] =
            [@ EXCEPT !.final_download_url = final_url,
                      !.url_discovered_at = Stamped]]

\* update_download_urls setting can_retry_direct whatever final_url is.
update_download_urls_flag_always(dh, download_id, final_url) ==
    IF download_id \notin DOMAIN dh THEN dh
    ELSE [dh EXCEPT ![download_id] =
            [@ EXCEPT !.final_download_url = IF truthy(final_url) THEN final_url ELSE @,
                      !.url_discovered_at = IF truthy(final_url) THEN Stamped ELSE @,
                      !.can_retry_direct = TRUE]]

\* A falsy final_url (None or "") leaves the URL columns alone.
update_download_urls(dh, download_id, final_url) ==
    IF download_id \notin DOMAIN dh \/ ~truthy(final_url) THEN dh
    ELSE [dh EXCEPT ![download_id] =
            [@ EXCEPT !.final_download_url = final_url,
                      !.url_discovered_at = Stamped,
                      !.can_retry_direct = TRUE]]

mark_url_verified(dh, download_id, final_url) ==
    update_download_urls(dh, download_id, final_url)

mark_url_failed(dh, download_id, error_msg) ==
    IF download_id \notin DOMAIN dh THEN dh
    ELSE [dh EXCEPT ![download_id] =
            [@ EXCEPT !.can_retry_direct = FALSE, !.error_message = error_msg]]

\* get_download_record without its ownership filter: the lookup by id alone.
get_download_record_unfiltered(dh, download_id, username) ==
    {i \in DOMAIN dh : i = download_id}

\* The ids of the rows the SELECT returns (none or one). `if username:` is
\* false for None and for "", both written NULL here: the lookup is then by id
\* alone. The usernames of Users are non-empty, as every session username is.
get_download_record(dh, download_id, username) ==
    IF username # NULL
    THEN {i \in DOMAIN dh : i = download_id /\ dh[i].username = username}
    ELSE {i \in DOMAIN dh : i = download_id}

\* The ids of the rows returned, for a user and an optional book_id.
get_redownloadable_books(dh, username, book_id) ==
    {i \in DOMAIN dh :
        /\ dh[i].username = username
        /\ dh[i].final_download_url # NULL
        /\ dh[i].can_retry_direct
        /\ dh[i].status \in {"completed", "error"}
        /\ (book_id # NULL => dh[i].book_id = book_id)}

\* phantom_rows without its book_id condition: every active row.
phantom_rows_any_book(dh, book_id) ==
    {i \in DOMAIN dh : dh[i].status \in ActiveStatuses}

\* The rows the SELECT and the UPDATE of cancel_phantom_downloads match.
phantom_rows(dh, book_id) ==
    {i \in DOMAIN dh : dh[i].book_id = book_id /\ dh[i].status \in ActiveStatuses}

cancel_phantom_downloads(dh, book_id) ==
    [i \in DOMAIN dh |->
        IF i \in phantom_rows(dh, book_id)
        THEN [dh[i] EXCEPT !.status = "cancelled", !.completed_at = Stamped,
                         !.error_message = PhantomMsg]
        ELSE dh[i]]

\* startup_rows narrowed: 'waiting' is left out.
startup_rows_no_waiting(dh) ==
    {i \in DOMAIN dh : dh[i].status \in {"downloading", "processing"}}

\* The rows the SELECT and the UPDATE of cleanup_phantom_downloads_on_startup match.
startup_rows(dh) ==
    {i \in DOMAIN dh : dh[i].status \in StartupPhantomStatuses}

cleanup_phantom_downloads_on_startup(dh) ==
    [i \in DOMAIN dh |->
        IF i \in startup_rows(dh)
        THEN [dh[i] EXCEPT !.status = "cancelled", !.completed_at = Stamped,
                         !.error_message = StartupMsg]
        ELSE dh[i]]

\* The statistics side of update_download_status: after a write of a final
\* status the owner's statistics are (re)loaded through get_user_stats.
update_download_status_stats(us, dh, download_id, status) ==
    IF status \in FinalStatuses /\ get_download_record(dh, download_id, NULL) # {}
    THEN update_user_stats(us, dh, dh[download_id].username)
    ELSE us

\* ------------------------------------------------------------ LiveQueue
\* The buckets of the snapshot queue_status() returns.
LiveBuckets == {"queued", "processing", "downloading", "waiting", "available", "error"}

\* The bucket a book is moved to when its worker reports a status.
live_bucket(status) ==
    IF status = "completed" THEN "available" ELSE status

remove_from_tracking(lv, book_id) ==
    [b \in DOMAIN lv |-> IF b = book_id THEN NULL ELSE lv[b]]

\* The book ids of a snapshot's bucket.
bucket_keys(lv, bucket) ==
    {b \in DOMAIN lv : lv[b] = bucket}

\* ------------------------------------------------------------- helpers
\* str.isdigit() and int() on the path segments a client can send.
PathNumbers == 1..(MaxRecords + 1)
isdigit(s) == \E n \in PathNumbers : ToString(n) = s
to_int(s) == CHOOSE n \in PathNumbers : ToString(n) = s
PathArgs == {ToString(n) : n \in PathNumbers} \cup Books

Op(name, user, id, arg) == [name |-> name, user |-> user, id |-> id, arg |-> arg]

NoKwargs == <<>>

\* --------------------------------------------------------------- Init
\* ------------------------------------------------------------ RateLimiter
\* The threads serving requests, and the endpoints with the max_requests and
\* window_seconds their routes are limited with.
Threads == {"t1", "t2"}
Endpoints == {"download", "search"}
Limits ==
    [download |-> [max_requests |-> 2, window_seconds |-> 60],
     search |-> [max_requests |-> 1, window_seconds |-> 3600]]

\* self._cleanup_interval, in seconds.
cleanup_interval == 300

\* The instants, in seconds since the RateLimiter was built, at which the
\* clock is read.
Instants == {0, 100, 250, 300, 310}

\* A list of timestamps is kept as the number of times each instant is in it.
NoTimestamps == [i \in Instants |-> 0]

RECURSIVE count_in(_, _)
count_in(timestamps, instants) ==
    IF instants = {} THEN 0
    ELSE LET i == CHOOSE x \in instants : TRUE
         IN timestamps[i] + count_in(timestamps, instants \ {i})

\* len(timestamps)
len(timestamps) == count_in(timestamps, Instants)

\* [t for t in timestamps if t > cutoff_time]
unexpired(timestamps, cutoff_time) ==
    [i \in Instants |-> IF i > cutoff_time THEN timestamps[i] ELSE 0]

\* timestamps.append(current_time)
append(timestamps, current_time) ==
    [timestamps EXCEPT ![current_time] = @ + 1]

IdleCall == [pc |-> "idle", endpoint |-> NULL, current_time |-> 0, limited |-> FALSE]

\* RateLimiter.__init__
RateInit ==
    /\ now = 0
    /\ requests = [e \in Endpoints |-> NoTimestamps]
    /\ last_cleanup = 0
    /\ calls = [t \in Threads |-> IdleCall]
    /\ n_calls = 0
    /\ admitted = [e \in Endpoints |-> NoTimestamps]

Init ==
    /\ download_history = <<>>
    /\ last_id = 0
    /\ user_stats = [u \in {} |-> NULL]
    /\ live = [b \in Books |-> NULL]
    /\ worker = <<>>
    /\ proc = "serving"
    /\ stale = {}
    /\ url_failed = {}
    /\ lastOp = Op("init", NULL, 0, NULL)
    /\ ret = NoReturn
    /\ RateInit

\* ------------------------------------------------------------ actions
\* GET /api/download -> backend.queue_book: the book enters the live queue and
\* a durable 'queued' row is inserted for the user.
ApiDownload(u, b) ==
    /\ proc = "serving"
    /\ last_id < MaxRecords
    /\ live[b] = NULL
    /\ LET id == last_id + 1
           dh == record_download_queued(download_history, id, u, b)
       IN /\ download_history' = dh
          /\ last_id' = id
          /\ user_stats' = update_user_stats(user_stats, dh, u)
          /\ worker' = [i \in DOMAIN worker \cup {id} |->
                           IF i = id THEN "queued" ELSE worker[i]]
          /\ ret' = [code |-> 200, status |-> "queued"]
          /\ lastOp' = Op("queue_book", u, id, b)
    /\ live' = [live EXCEPT ![b] = "queued"]
    /\ UNCHANGED <<proc, stale, url_failed>>
    /\ UNCHANGED RateVars

\* The statuses a worker reports after the one it reported last.
worker_next(pos) ==
    CASE pos = "queued" -> {"processing"}
      [] pos = "processing" -> {"downloading"}
      [] pos = "downloading" -> {"waiting", "completed", "error"}
      [] pos = "waiting" -> {"downloading"}
      [] OTHER -> {}

worker_kwargs(status) ==
    CASE status = "completed" -> [file_size |-> CHOOSE s \in FileSizes : TRUE]
      [] status = "error" -> [error_message |-> WorkerErrorMsg]
      [] OTHER -> NoKwargs

\* The downloader's progress callback for record id: it writes the status
\* through update_download_status and moves the live entry, if the book is
\* still tracked.
WorkerReport(id, status) ==
    /\ proc = "serving"
    /\ id \in DOMAIN worker
    /\ status \in worker_next(worker[id])
    /\ LET dh == update_download_status(download_history, id, status, worker_kwargs(status))
           b == download_history[id].book_id
       IN /\ download_history' = dh
          /\ user_stats' = update_download_status_stats(user_stats, dh, id, status)
          /\ live' = IF live[b] # NULL
                     THEN [live EXCEPT ![b] = live_bucket(status)] ELSE live
    /\ worker' = [worker EXCEPT ![id] = IF status \in FinalStatuses THEN "done" ELSE status]
    /\ stale' = stale \ {id}
    /\ lastOp' = Op("update_download_status", NULL, id, status)
    /\ ret' = NoReturn
    /\ UNCHANGED <<last_id, proc, url_failed>>
    /\ UNCHANGED RateVars

\* The downloader resolved the direct link of the record it is downloading.
WorkerUrlDiscovered(id, url) ==
    /\ proc = "serving"
    /\ id \in DOMAIN worker
    /\ worker[id] = "downloading"
    /\ download_history' = update_download_urls(download_history, id, url)
    /\ ret' = NoReturn
    /\ lastOp' = Op("update_download_urls", NULL, id, url)
    /\ UNCHANGED <<last_id, user_stats, live, worker, proc, stale, url_failed>>
    /\ UNCHANGED RateVars

\* A worker whose book left the live queue notices it and stops.
WorkerObserveCancel(id) ==
    /\ proc = "serving"
    /\ id \in DOMAIN worker
    /\ worker[id] # "done"
    /\ live[download_history[id].book_id] = NULL
    /\ worker' = [worker EXCEPT ![id] = "done"]
    /\ ret' = NoReturn
    /\ lastOp' = Op("worker_stop", NULL, id, NULL)
    /\ UNCHANGED <<download_history, last_id, user_stats, live, proc, stale, url_failed>>
    /\ UNCHANGED RateVars

\* A finished book is drained from the live queue.
LiveEvict(b) ==
    /\ proc = "serving"
    /\ live[b] \in {"available", "error"}
    /\ live' = remove_from_tracking(live, b)
    /\ ret' = NoReturn
    /\ lastOp' = Op("evict", NULL, 0, b)
    /\ UNCHANGED <<download_history, last_id, user_stats, worker, proc, stale, url_failed>>
    /\ UNCHANGED RateVars

\* ------------------------------------------------- HTTP handlers (writes)
\* The numeric branch of api_remove_tracking: the row with this id, if the
\* caller owns it.
owned_row(dh, download_id, username) ==
    {i \in DOMAIN dh : i = download_id /\ dh[i].username = username}

\* Its UPDATE: WHERE id = ? AND username = ?, whatever the row's status.
cancel_by_id(dh, download_id, username) ==
    [i \in DOMAIN dh |->
        IF i \in owned_row(dh, download_id, username)
        THEN [dh[i] EXCEPT !.status = "cancelled", !.completed_at = Stamped,
                         !.error_message = ManualMsg]
        ELSE dh[i]]

\* DELETE /api/download/<book_id>/remove-tracking, numeric id found.
RemoveTrackingById(u, arg) ==
    /\ isdigit(arg)
    /\ owned_row(download_history, to_int(arg), u) # {}
    /\ download_history' = cancel_by_id(download_history, to_int(arg), u)
    /\ live' = remove_from_tracking(live, download_history[to_int(arg)].book_id)
    /\ stale' = stale \ {to_int(arg)}
    /\ ret' = [code |-> 200, cancelled_count |-> 1]

\* Numeric id that is no row of the caller: 404, nothing is written.
RemoveTrackingNotFound(u, arg) ==
    /\ isdigit(arg)
    /\ owned_row(download_history, to_int(arg), u) = {}
    /\ ret' = [code |-> 404, cancelled_count |-> 0]
    /\ UNCHANGED <<download_history, live, stale>>

\* A book hash: cancel_phantom_downloads, then the live entry is dropped.
RemoveTrackingByHash(u, arg) ==
    /\ ~isdigit(arg)
    /\ download_history' = cancel_phantom_downloads(download_history, arg)
    /\ live' = remove_from_tracking(live, arg)
    /\ stale' = stale \ phantom_rows(download_history, arg)
    /\ ret' = [code |-> 200,
               cancelled_count |-> Cardinality(phantom_rows(download_history, arg))]

ApiRemoveTracking(u, arg) ==
    /\ proc = "serving"
    /\ \/ RemoveTrackingById(u, arg)
       \/ RemoveTrackingNotFound(u, arg)
       \/ RemoveTrackingByHash(u, arg)
    /\ lastOp' = Op("remove_tracking", u, 0, arg)
    /\ UNCHANGED <<last_id, user_stats, worker, proc, url_failed>>
    /\ UNCHANGED RateVars

\* cancel_phantom_downloads(book_id) called on the store.
CancelPhantomDownloads(b) ==
    /\ proc = "serving"
    /\ download_history' = cancel_phantom_downloads(download_history, b)
    /\ stale' = stale \ phantom_rows(download_history, b)
    /\ ret' = Cardinality(phantom_rows(download_history, b))
    /\ lastOp' = Op("cancel_phantom_downloads", NULL, 0, b)
    /\ UNCHANGED <<last_id, user_stats, live, worker, proc, url_failed>>
    /\ UNCHANGED RateVars

\* The records the live queue is driving for a book.
tracked_records(dh, wk, b) ==
    {i \in DOMAIN wk : dh[i].book_id = b /\ wk[i] # "done"}

\* DELETE /api/download/<book_id>/cancel -> backend.cancel_download: an active
\* entry is cancelled and leaves the live queue, the record it drives is set
\* to cancelled through update_download_status, and an entry no worker had
\* picked up is never started; without an active entry nothing is touched.
ApiCancelDownload(b) ==
    /\ proc = "serving"
    /\ LET hit == tracked_records(download_history, worker, b)
           dh == [i \in DOMAIN download_history |->
                    IF i \in hit
                    THEN update_download_status(download_history, i, "cancelled", NoKwargs)[i]
                    ELSE download_history[i]]
       IN IF live[b] \in ActiveStatuses
          THEN /\ download_history' = dh
               /\ user_stats' = IF hit = {} THEN user_stats
                                ELSE update_download_status_stats(
                                         user_stats, dh, CHOOSE i \in hit : TRUE, "cancelled")
               /\ live' = remove_from_tracking(live, b)
               /\ worker' = [i \in DOMAIN worker |->
                               IF i \in hit /\ worker[i] = "queued" THEN "done" ELSE worker[i]]
               /\ stale' = stale \ hit
               /\ ret' = [code |-> 200]
          ELSE /\ ret' = [code |-> 404]
               /\ UNCHANGED <<download_history, user_stats, live, worker, stale>>
    /\ lastOp' = Op("cancel_download", NULL, 0, b)
    /\ UNCHANGED <<last_id, proc, url_failed>>
    /\ UNCHANGED RateVars

\* cleanup_phantom_downloads_on_startup, run by whoever starts the service,
\* before it serves.
CleanupPhantomDownloadsOnStartup ==
    /\ proc = "down"
    /\ download_history' = cleanup_phantom_downloads_on_startup(download_history)
    /\ stale' = stale \ startup_rows(download_history)
    /\ ret' = [cancelled_count |-> Cardinality(startup_rows(download_history))]
    /\ lastOp' = Op("cleanup_phantom_downloads_on_startup", NULL, 0, NULL)
    /\ UNCHANGED <<last_id, user_stats, live, worker, proc, url_failed>>
    /\ UNCHANGED RateVars

\* The outcomes of _download_from_direct_url.
FetchOutcomes == {"ok", "fail", "raise"}

\* Whether direct_redownload gets as far as the fetch.
redownload_attempted(dh, download_record_id) ==
    \E i \in get_download_record(dh, download_record_id, NULL) :
        dh[i].final_download_url # NULL

\* direct_redownload's effect on download_history, for an outcome of the fetch.
direct_redownload(dh, download_record_id, fetch) ==
    IF ~redownload_attempted(dh, download_record_id) THEN dh
    ELSE CASE fetch = "ok" ->
                update_download_status(dh, download_record_id, "completed",
                                       [file_size |-> CHOOSE s \in FileSizes : TRUE])
           [] fetch = "fail" ->
                mark_url_failed(dh, download_record_id, RedownloadFailedMsg)
           [] OTHER ->
                mark_url_failed(dh, download_record_id, RedownloadErrorMsg)

\* direct_redownload's return value.
direct_redownload_result(dh, download_record_id, fetch) ==
    redownload_attempted(dh, download_record_id) /\ fetch = "ok"

\* POST /api/downloads/redownload/<download_id>.
ApiRedownloadDirect(u, id, fetch) ==
    /\ proc = "serving"
    /\ LET record == get_download_record(download_history, id, u)
           has_url == \E i \in record : download_history[i].final_download_url # NULL
           dh == direct_redownload(download_history, id, fetch)
           ok == direct_redownload_result(download_history, id, fetch)
       IN IF record = {} THEN
               /\ ret' = [code |-> 404, record |-> record]
               /\ UNCHANGED <<download_history, user_stats, stale, url_failed>>
          ELSE IF ~has_url THEN
               /\ ret' = [code |-> 400, record |-> record]
               /\ UNCHANGED <<download_history, user_stats, stale, url_failed>>
          ELSE /\ download_history' = dh
               /\ user_stats' = IF ok
                                THEN update_download_status_stats(user_stats, dh, id, "completed")
                                ELSE user_stats
               /\ stale' = IF ok THEN stale \ {id} ELSE stale
               /\ url_failed' = IF ok THEN url_failed ELSE url_failed \cup {id}
               /\ ret' = [code |-> IF ok THEN 200 ELSE 400, record |-> record]
    /\ lastOp' = Op("redownload_direct", u, id, NULL)
    /\ UNCHANGED <<last_id, live, worker, proc>>
    /\ UNCHANGED RateVars

\* mark_url_verified called on a record of the store.
MarkUrlVerified(id, url) ==
    /\ proc = "serving"
    /\ id \in Ids
    /\ download_history' = mark_url_verified(download_history, id, url)
    /\ ret' = NoReturn
    /\ lastOp' = Op("mark_url_verified", NULL, id, url)
    /\ UNCHANGED <<last_id, user_stats, live, worker, proc, stale, url_failed>>
    /\ UNCHANGED RateVars

\* ----------------------------------------------------- process lifecycle
\* The process ends: the live queue and the worker threads are lost, the
\* tables stay.
Crash ==
    /\ proc = "serving"
    /\ proc' = "down"
    /\ live' = [b \in Books |-> NULL]
    /\ worker' = [i \in DOMAIN worker |-> "done"]
    /\ stale' = Ids
    /\ ret' = NoReturn
    /\ lastOp' = Op("crash", NULL, 0, NULL)
    /\ UNCHANGED <<download_history, last_id, user_stats, url_failed>>
    /\ UNCHANGED RateVars

\* Module load of src/api/app.py up to app.run(): get_downloads_db_manager()
\* builds a DownloadsDBManager, whose _init_db creates the tables that are
\* missing; no row is written. Requests are served from here on.
ModuleLoad ==
    /\ proc = "down"
    /\ proc' = "serving"
    /\ lastOp' = Op("module_load", NULL, 0, NULL)
    /\ ret' = NoReturn
    /\ UNCHANGED <<download_history, last_id, user_stats, live, worker, stale, url_failed>>
    /\ UNCHANGED RateVars

\* -------------------------------------------------- HTTP handlers (reads)
\* get_user_downloads(username, status): the ids of the user's rows, with that
\* status if one is given.
get_user_downloads(dh, username, status) ==
    {i \in DOMAIN dh : dh[i].username = username /\ (status # NULL => dh[i].status = status)}

\* get_user_downloads_by_status: the user's rows grouped by status.
get_user_downloads_by_status(dh, username) ==
    [s \in Statuses |-> get_user_downloads(dh, username, s)]

\* GET /api/downloads/history: the rows as stored.
ApiUserDownloadHistory(u) ==
    /\ proc = "serving"
    /\ ret' = {[row |-> i, status |-> download_history[i].status] :
                  i \in get_user_downloads(download_history, u, NULL)}
    /\ lastOp' = Op("downloads_history", u, 0, NULL)
    /\ UNCHANGED <<download_history, last_id, user_stats, live, worker, proc, stale, url_failed>>
    /\ UNCHANGED RateVars

\* The book ids the handler of src/api/routes/downloads.py treats as active.
active_queue_book_ids(lv) ==
    UNION {bucket_keys(lv, q) : q \in {"queued", "downloading", "processing", "waiting", "available"}}

\* The rows of a terminal bucket that handler keeps.
filtered_downloads(dh, lv, username, status) ==
    {i \in get_user_downloads_by_status(dh, username)[status] :
        dh[i].book_id \notin active_queue_book_ids(lv)}

\* api_user_download_status of src/api/routes/downloads.py: per status, the
\* rows shown; a non-terminal row is marked when live data was copied onto it.
status_view_routes(dh, lv, username) ==
    [s \in Statuses |->
        IF s \in FinalStatuses
        THEN {[row |-> i, id |-> dh[i].book_id, status |-> s, enriched |-> FALSE] :
                 i \in filtered_downloads(dh, lv, username, s)}
        ELSE {[row |-> i, id |-> dh[i].book_id, status |-> s,
               enriched |-> (dh[i].book_id \in bucket_keys(lv, s))] :
                 i \in get_user_downloads_by_status(dh, username)[s]}]

\* api_user_download_status of src/api/app.py: the terminal buckets are the
\* stored rows, unfiltered.
status_view_app(dh, lv, username) ==
    [s \in Statuses |->
        IF s \in FinalStatuses
        THEN {[row |-> i, id |-> dh[i].book_id, status |-> s, enriched |-> FALSE] :
                 i \in get_user_downloads_by_status(dh, username)[s]}
        ELSE {[row |-> i, id |-> dh[i].book_id, status |-> s,
               enriched |-> (dh[i].book_id \in bucket_keys(lv, s))] :
                 i \in get_user_downloads_by_status(dh, username)[s]}]

\* GET /api/downloads/status, as registered by src/api/routes/downloads.py.
ApiUserDownloadStatus(u) ==
    /\ proc = "serving"
    /\ ret' = status_view_routes(download_history, live, u)
    /\ lastOp' = Op("downloads_status", u, 0, "routes")
    /\ UNCHANGED <<download_history, last_id, user_stats, live, worker, proc, stale, url_failed>>
    /\ UNCHANGED RateVars

\* GET /api/downloads/status, as defined in src/api/app.py.
ApiUserDownloadStatusApp(u) ==
    /\ proc = "serving"
    /\ ret' = status_view_app(download_history, live, u)
    /\ lastOp' = Op("downloads_status", u, 0, "app")
    /\ UNCHANGED <<download_history, last_id, user_stats, live, worker, proc, stale, url_failed>>
    /\ UNCHANGED RateVars

\* ------------------------------------- the status view with its live data
\* str.strip() on the titles and authors a live entry can carry.
strip(s) == IF s \in {" ", "  "} THEN "" ELSE s

\* The title/author pairs a BookInfo of the live queue can carry.
LiveNames ==
    {<<NULL, NULL>>, <<"", "  ">>, <<"Unknown", "Unknown Author">>,
     <<"Unknown Author", "Unknown">>, <<"Live Title", "Live Author">>}

\* A BookInfo of the snapshot queue_status() returns, with the attributes
\* the status handlers read.
QueueData ==
    {[title |-> n[1], author |-> n[2], progress |-> 50, download_speed |-> 1000,
      eta_seconds |-> 30, wait_time |-> 5, wait_start |-> 7, error |-> "live error"] :
        n \in LiveNames}

\* The record a status handler starts from for a non-terminal row.
enriched_record(dh, i, status) ==
    [row |-> i, id |-> dh[i].book_id, title |-> dh[i].book_title,
     author |-> dh[i].book_author, progress |-> 0, status |-> status]

\* dict.update: the keys of upd win over those of rec.
dict_update(rec, upd) == upd @@ rec

\* The overrides without the comparison against the placeholders.
name_overrides_any_text(queue_data) ==
    (IF truthy(queue_data.title) /\ truthy(strip(queue_data.title))
     THEN [title |-> queue_data.title] ELSE <<>>)
    @@
    (IF truthy(queue_data.author) /\ truthy(strip(queue_data.author))
     THEN [author |-> queue_data.author] ELSE <<>>)

\* The title/author overrides of routes/downloads.py.
name_overrides(queue_data) ==
    (IF truthy(queue_data.title) /\ truthy(strip(queue_data.title))
        /\ queue_data.title # "Unknown"
     THEN [title |-> queue_data.title] ELSE <<>>)
    @@
    (IF truthy(queue_data.author) /\ truthy(strip(queue_data.author))
        /\ queue_data.author # "Unknown Author"
     THEN [author |-> queue_data.author] ELSE <<>>)

\* One non-terminal bucket of the response of routes/downloads.py; every
\* entry of the live queue carries queue_data.
enriched_downloads_routes(dh, lv, username, status, queue_data) ==
    {IF dh[i].book_id \in bucket_keys(lv, status)
     THEN dict_update(
              dict_update(enriched_record(dh, i, status),
                  [progress |-> queue_data.progress,
                   download_speed |-> queue_data.download_speed,
                   eta_seconds |-> queue_data.eta_seconds,
                   wait_time |-> queue_data.wait_time,
                   wait_start |-> queue_data.wait_start,
                   error |-> queue_data.error]),
              name_overrides(queue_data))
     ELSE enriched_record(dh, i, status) :
        i \in get_user_downloads_by_status(dh, username)[status]}

\* The same bucket in the response of src/api/app.py.
enriched_downloads_app(dh, lv, username, status, queue_data) ==
    {IF dh[i].book_id \in bucket_keys(lv, status)
     THEN dict_update(enriched_record(dh, i, status),
              [progress |-> queue_data.progress,
               wait_time |-> queue_data.wait_time,
               wait_start |-> queue_data.wait_start,
               error |-> queue_data.error])
     ELSE enriched_record(dh, i, status) :
        i \in get_user_downloads_by_status(dh, username)[status]}

\* GET /api/downloads/status of routes/downloads.py, the response with its
\* live data.
ApiUserDownloadStatusData(u, queue_data) ==
    /\ proc = "serving"
    /\ ret' = [s \in Statuses |->
                 IF s \in FinalStatuses
                 THEN status_view_routes(download_history, live, u)[s]
                 ELSE enriched_downloads_routes(download_history, live, u, s, queue_data)]
    /\ lastOp' = Op("downloads_status_routes", u, 0, queue_data)
    /\ UNCHANGED <<download_history, last_id, user_stats, live, worker, proc, stale, url_failed>>
    /\ UNCHANGED RateVars

\* GET /api/downloads/status of src/api/app.py, the response with its live
\* data.
ApiUserDownloadStatusAppData(u, queue_data) ==
    /\ proc = "serving"
    /\ ret' = [s \in Statuses |->
                 IF s \in FinalStatuses
                 THEN status_view_app(download_history, live, u)[s]
                 ELSE enriched_downloads_app(download_history, live, u, s, queue_data)]
    /\ lastOp' = Op("downloads_status_app", u, 0, queue_data)
    /\ UNCHANGED <<download_history, last_id, user_stats, live, worker, proc, stale, url_failed>>
    /\ UNCHANGED RateVars

\* ---------------------------------------- store calls with keyword fields
\* The keyword fields update_download_status writes to their columns.
KwargColumns ==
    {"progress_percent", "download_speed", "eta_seconds", "error_message", "file_size",
     "file_path", "download_duration", "wait_time", "wait_start"}

\* The columns of the SET clause update_download_status builds.
update_fields(status, kwargs) ==
    {"status", "updated_at"}
    \cup (IF stamps_started_at(status, kwargs) THEN {"started_at"}
          ELSE IF stamps_completed_at(status, kwargs) THEN {"completed_at"} ELSE {})
    \cup (DOMAIN kwargs \cap KwargColumns)

\* The keyword fields a caller passes in the calls considered.
KwargSets ==
    {NoKwargs, [started_at |-> Stamped], [completed_at |-> Stamped],
     [error_message |-> WorkerErrorMsg]}

\* update_download_status(download_id, status, **kwargs) called on the store
\* with any status and keyword fields.
UpdateDownloadStatusKwargs(id, status, kwargs) ==
    /\ proc = "serving"
    /\ id \in Ids
    /\ LET dh == update_download_status(download_history, id, status, kwargs)
       IN /\ download_history' = dh
          /\ user_stats' = update_download_status_stats(user_stats, dh, id, status)
    /\ ret' = NoReturn
    /\ lastOp' = Op("update_download_status_kwargs", NULL, id,
                    [status |-> status, kwargs |-> kwargs])
    /\ UNCHANGED <<last_id, live, worker, proc, stale, url_failed>>
    /\ UNCHANGED RateVars

\* ------------------------------------------- store calls under storage faults
\* Where a sqlite3 error can strike a store call: nowhere, in the statement or
\* its commit (the connection rolls back), or in the statistics refresh that
\* follows the commit.
WriteFaults == {"none", "write", "stats"}

\* What a call hands back: whether it raised, and its return value if not.
Returned(value) == [raised |-> FALSE, value |-> value]
Raised == [raised |-> TRUE, value |-> NULL]

\* record_download_queued(username, book_info) called on the store.
RecordDownloadQueued(u, b, fault) ==
    /\ proc = "serving"
    /\ last_id < MaxFaultRecords
    /\ LET id == last_id + 1
           dh == record_download_queued(download_history, id, u, b)
       IN CASE fault = "write" ->
                 /\ ret' = Raised
                 /\ UNCHANGED <<download_history, last_id, user_stats>>
            [] fault = "stats" ->
                 /\ download_history' = dh
                 /\ last_id' = id
                 /\ ret' = Raised
                 /\ UNCHANGED user_stats
            [] OTHER ->
                 /\ download_history' = dh
                 /\ last_id' = id
                 /\ user_stats' = update_user_stats(user_stats, dh, u)
                 /\ ret' = Returned(id)
    /\ lastOp' = Op("record_download_queued", u, last_id + 1, b)
    /\ UNCHANGED <<live, worker, proc, stale, url_failed>>
    /\ UNCHANGED RateVars

\* update_download_status(download_id, status, **kwargs) called on the store.
UpdateDownloadStatus(id, status, fault) ==
    /\ proc = "serving"
    /\ id \in Ids
    /\ LET dh == update_download_status(download_history, id, status, worker_kwargs(status))
       IN CASE fault = "write" ->
                 /\ ret' = Raised
                 /\ UNCHANGED <<download_history, user_stats>>
            [] fault = "stats" /\ status \in FinalStatuses ->
                 /\ download_history' = dh
                 /\ ret' = Raised
                 /\ UNCHANGED user_stats
            [] OTHER ->
                 /\ download_history' = dh
                 /\ user_stats' = update_download_status_stats(user_stats, dh, id, status)
                 /\ ret' = Returned(NULL)
    /\ lastOp' = Op("store_update_download_status", NULL, id, status)
    /\ UNCHANGED <<last_id, live, worker, proc, stale, url_failed>>
    /\ UNCHANGED RateVars

\* update_download_urls(download_id, final_url=...) called on the store.
UpdateDownloadUrls(id, url, fault) ==
    /\ proc = "serving"
    /\ id \in Ids
    /\ IF fault = "write"
       THEN ret' = Raised /\ UNCHANGED download_history
       ELSE /\ download_history' = update_download_urls(download_history, id, url)
            /\ ret' = Returned(NULL)
    /\ lastOp' = Op("store_update_download_urls", NULL, id, url)
    /\ UNCHANGED <<last_id, user_stats, live, worker, proc, stale, url_failed>>
    /\ UNCHANGED RateVars

\* mark_url_failed(download_id, error_msg) called on the store.
MarkUrlFailed(id, fault) ==
    /\ proc = "serving"
    /\ id \in Ids
    /\ IF fault = "write"
       THEN ret' = Raised /\ UNCHANGED <<download_history, url_failed>>
       ELSE /\ download_history' = mark_url_failed(download_history, id, RedownloadFailedMsg)
            /\ url_failed' = url_failed \cup {id}
            /\ ret' = Returned(NULL)
    /\ lastOp' = Op("store_mark_url_failed", NULL, id, NULL)
    /\ UNCHANGED <<last_id, user_stats, live, worker, proc, stale>>
    /\ UNCHANGED RateVars

\* Where a sqlite3 error can strike direct_redownload: nowhere, in its
\* get_download_record, in the update_download_status after a good fetch, in
\* the first mark_url_failed it calls, or in every mark_url_failed it calls.
RedownloadFaults == {"none", "load", "status", "mark", "mark_always"}

\* direct_redownload(download_record_id, target_path) called on the store:
\* the table it leaves and what it hands back. The lookup is made before the
\* try block; a failure inside the try block is handled by a mark_url_failed
\* made from the except block.
direct_redownload_faulty(dh, id, fetch, fault) ==
    LET marked == mark_url_failed(dh, id, RedownloadErrorMsg)
    IN CASE fault = "load" -> [dh |-> dh, out |-> Raised]
         [] ~redownload_attempted(dh, id) -> [dh |-> dh, out |-> Returned(FALSE)]
         [] fetch = "ok" /\ fault = "status" -> [dh |-> marked, out |-> Returned(FALSE)]
         [] fetch = "ok" -> [dh |-> direct_redownload(dh, id, fetch), out |-> Returned(TRUE)]
         [] fault = "mark_always" -> [dh |-> dh, out |-> Raised]
         [] fetch = "fail" /\ fault = "mark" -> [dh |-> marked, out |-> Returned(FALSE)]
         [] fetch = "raise" /\ fault = "mark" -> [dh |-> dh, out |-> Raised]
         [] OTHER -> [dh |-> direct_redownload(dh, id, fetch), out |-> Returned(FALSE)]

DirectRedownload(id, fetch, fault) ==
    /\ proc = "serving"
    /\ LET r == direct_redownload_faulty(download_history, id, fetch, fault)
       IN /\ download_history' = r.dh
          /\ ret' = r.out
          /\ user_stats' = IF ~r.out.raised /\ r.out.value
                           THEN update_download_status_stats(user_stats, r.dh, id, "completed")
                           ELSE user_stats
          /\ url_failed' = IF r.dh # download_history /\ ~(~r.out.raised /\ r.out.value)
                           THEN url_failed \cup {id} ELSE url_failed
    /\ lastOp' = Op("direct_redownload", NULL, id, fetch)
    /\ UNCHANGED <<last_id, live, worker, proc, stale>>
    /\ UNCHANGED RateVars

\* ------------------------------------------------------ deletion of rows
\* The table with the rows of a set of ids removed.
delete_rows(dh, ids) == [i \in DOMAIN dh \ ids |-> dh[i]]

\* DELETE FROM download_history, with no WHERE clause.
clear_user_download_history_all_rows(dh, username) ==
    delete_rows(dh, DOMAIN dh)

\* DELETE FROM download_history WHERE username = ?
clear_user_download_history(dh, username) ==
    delete_rows(dh, {i \in DOMAIN dh : dh[i].username = username})

\* clear_user_download_history(username) called on the store; it returns the
\* number of rows deleted.
ClearUserDownloadHistory(u) ==
    /\ proc = "serving"
    /\ download_history' = clear_user_download_history(download_history, u)
    /\ ret' = Cardinality({i \in Ids : download_history[i].username = u})
    /\ stale' = stale \cap DOMAIN download_history'
    /\ url_failed' = url_failed \cap DOMAIN download_history'
    /\ lastOp' = Op("clear_user_download_history", u, 0, NULL)
    /\ UNCHANGED <<last_id, user_stats, live, worker, proc>>
    /\ UNCHANGED RateVars

\* The day of the month cleanup_old_records is called on, and the ages it is
\* called with.
DaysOfMonth == {28}
DaysOld == {7, 90}

\* datetime.replace(day = today - days_old) raises ValueError for a day
\* below 1.
cutoff_raises(today, days_old) == today - days_old < 1

\* The rows cleanup_old_records deletes, among those created before the cutoff.
old_final_rows(dh, older) ==
    {i \in DOMAIN dh \cap older : dh[i].status \in {"completed", "error", "cancelled"}}

\* cleanup_old_records(days_old) called on the store on a given day of the
\* month; older is the set of rows created before the cutoff.
CleanupOldRecords(today, days_old, older) ==
    /\ proc = "serving"
    /\ IF cutoff_raises(today, days_old)
       THEN /\ ret' = Raised
            /\ UNCHANGED <<download_history, stale, url_failed>>
       ELSE /\ download_history' = delete_rows(download_history,
                                               old_final_rows(download_history, older))
            /\ ret' = Returned(Cardinality(old_final_rows(download_history, older)))
            /\ stale' = stale \cap DOMAIN download_history'
            /\ url_failed' = url_failed \cap DOMAIN download_history'
    /\ lastOp' = Op("cleanup_old_records", NULL, days_old, NULL)
    /\ UNCHANGED <<last_id, user_stats, live, worker, proc>>
    /\ UNCHANGED RateVars

\* --------------------------------------------- RateLimiter.is_rate_limited
\* Time passes.
Tick ==
    /\ \E i \in Instants : i > now /\ now' = i
    /\ UNCHANGED <<requests, last_cleanup, calls, n_calls, admitted>>
    /\ UNCHANGED StoreVars

\* A thread enters is_rate_limited(endpoint, max_requests, window_seconds) and
\* reads the clock.
EnterCall(t, endpoint) ==
    /\ calls[t].pc = "idle"
    /\ n_calls < MaxCalls
    /\ n_calls' = n_calls + 1
    /\ calls' = [calls EXCEPT ![t] =
                    [pc |-> "check", endpoint |-> endpoint, current_time |-> now,
                     limited |-> FALSE]]
    /\ UNCHANGED <<now, requests, last_cleanup, admitted>>
    /\ UNCHANGED StoreVars

\* _cleanup_expired_requests: the test of the interval, made without the lock.
CleanupCheck(t) ==
    /\ calls[t].pc = "check"
    /\ calls' = [calls EXCEPT ![t].pc =
                    IF calls[t].current_time - last_cleanup < cleanup_interval
                    THEN "main" ELSE "cleanup"]
    /\ UNCHANGED <<now, requests, last_cleanup, n_calls, admitted>>
    /\ UNCHANGED StoreVars

\* _cleanup_expired_requests: under the lock, every endpoint's timestamps are
\* cut at current_time minus the window_seconds of the calling endpoint.
CleanupExpired(t) ==
    /\ calls[t].pc = "cleanup"
    /\ LET cutoff_time == calls[t].current_time - Limits[calls[t].endpoint].window_seconds
       IN requests' = [e \in Endpoints |-> unexpired(requests[e], cutoff_time)]
    /\ calls' = [calls EXCEPT ![t].pc = "stamp"]
    /\ UNCHANGED <<now, last_cleanup, n_calls, admitted>>
    /\ UNCHANGED StoreVars

\* _cleanup_expired_requests: _last_cleanup is written after the lock is
\* released.
CleanupStamp(t) ==
    /\ calls[t].pc = "stamp"
    /\ last_cleanup' = calls[t].current_time
    /\ calls' = [calls EXCEPT ![t].pc = "main"]
    /\ UNCHANGED <<now, requests, n_calls, admitted>>
    /\ UNCHANGED StoreVars

\* The body of is_rate_limited under the lock: expired timestamps of the
\* endpoint are dropped, then the call is limited or its time is appended.
CheckLimit(t) ==
    /\ calls[t].pc = "main"
    /\ LET e == calls[t].endpoint
           current_time == calls[t].current_time
           cutoff_time == current_time - Limits[e].window_seconds
           timestamps == unexpired(requests[e], cutoff_time)
       IN IF len(timestamps) >= Limits[e].max_requests
          THEN /\ requests' = [requests EXCEPT ![e] = timestamps]
               /\ calls' = [calls EXCEPT ![t].pc = "idle", ![t].limited = TRUE]
               /\ UNCHANGED admitted
          ELSE /\ requests' = [requests EXCEPT ![e] = append(timestamps, current_time)]
               /\ calls' = [calls EXCEPT ![t].pc = "idle", ![t].limited = FALSE]
               /\ admitted' = [admitted EXCEPT ![e] = append(@, current_time)]
    /\ UNCHANGED <<now, last_cleanup, n_calls>>
    /\ UNCHANGED StoreVars

\* ------------------------------------------------------- specifications
\* The download lifecycle with cancellation through remove-tracking.
Next ==
    \/ \E u \in Users, b \in Books : ApiDownload(u, b)
    \/ \E id \in Ids, s \in Statuses : WorkerReport(id, s)
    \/ \E id \in Ids : WorkerObserveCancel(id)
    \/ \E b \in Books : LiveEvict(b)
    \/ \E u \in Users, arg \in PathArgs : ApiRemoveTracking(u, arg)

Spec == Init /\ [][Next]_vars

\* Restart and startup reconciliation.
NextStartup ==
    \/ \E u \in Users, b \in Books : ApiDownload(u, b)
    \/ \E id \in Ids, s \in Statuses : WorkerReport(id, s)
    \/ Crash
    \/ CleanupPhantomDownloadsOnStartup
    \/ ModuleLoad

SpecStartup == Init /\ [][NextStartup]_vars

\* Restart as the code performs it, and the routes that read download status.
NextBoot ==
    \/ \E u \in Users, b \in Books : ApiDownload(u, b)
    \/ \E id \in Ids, s \in Statuses : WorkerReport(id, s)
    \/ Crash
    \/ ModuleLoad
    \/ \E u \in Users : ApiUserDownloadHistory(u)
    \/ \E u \in Users : ApiUserDownloadStatus(u)
    \/ \E u \in Users : ApiUserDownloadStatusApp(u)

SpecBoot == Init /\ [][NextBoot]_vars

\* The reconciled status view.
NextView ==
    \/ \E u \in Users, b \in Books : ApiDownload(u, b)
    \/ \E id \in Ids, s \in Statuses : WorkerReport(id, s)
    \/ \E b \in Books : LiveEvict(b)
    \/ \E u \in Users : ApiUserDownloadStatus(u)
    \/ \E u \in Users : ApiUserDownloadStatusApp(u)

SpecView == Init /\ [][NextView]_vars

\* Stored URLs and direct re-download.
NextRetry ==
    \/ \E u \in Users, b \in Books : ApiDownload(u, b)
    \/ \E id \in Ids, s \in Statuses : WorkerReport(id, s)
    \/ \E b \in Books : LiveEvict(b)
    \/ \E id \in Ids, url \in Urls : WorkerUrlDiscovered(id, url)
    \/ \E u \in Users, id \in PathNumbers, f \in FetchOutcomes : ApiRedownloadDirect(u, id, f)
    \/ \E id \in Ids, url \in Urls : MarkUrlVerified(id, url)

SpecRetry == Init /\ [][NextRetry]_vars

\* The ownership check of the re-download route.
NextOwner ==
    \/ \E u \in Users, b \in Books : ApiDownload(u, b)
    \/ \E id \in Ids, s \in Statuses : WorkerReport(id, s)
    \/ \E b \in Books : LiveEvict(b)
    \/ \E u \in Users, id \in PathNumbers, f \in FetchOutcomes : ApiRedownloadDirect(u, id, f)

SpecOwner == Init /\ [][NextOwner]_vars

\* The store's write calls and direct_redownload under storage faults.
NextFault ==
    \/ \E u \in Users, b \in Books, f \in WriteFaults : RecordDownloadQueued(u, b, f)
    \/ \E id \in Ids, st \in Statuses \ {"queued"}, f \in WriteFaults : UpdateDownloadStatus(id, st, f)
    \/ \E id \in Ids, url \in Urls, f \in WriteFaults : UpdateDownloadUrls(id, url, f)
    \/ \E id \in Ids, f \in WriteFaults : MarkUrlFailed(id, f)
    \/ \E id \in PathNumbers, ft \in FetchOutcomes, f \in RedownloadFaults : DirectRedownload(id, ft, f)

SpecFault == Init /\ [][NextFault]_vars

\* cancel_phantom_downloads against running downloads.
NextPhantom ==
    \/ \E u \in Users, b \in Books : ApiDownload(u, b)
    \/ \E id \in Ids, s \in Statuses : WorkerReport(id, s)
    \/ \E b \in Books : LiveEvict(b)
    \/ \E b \in Books : CancelPhantomDownloads(b)

SpecPhantom == Init /\ [][NextPhantom]_vars

\* Desynchronised records and the routines that repair them. A worker that can
\* report does so, and a process that is down is started again; nothing
\* schedules a repair routine.
WorkerStep == \E id \in 1..MaxRecords, s \in Statuses : WorkerReport(id, s)

NextRepair ==
    \/ \E u \in Users, b \in Books : ApiDownload(u, b)
    \/ WorkerStep
    \/ Crash
    \/ CleanupPhantomDownloadsOnStartup
    \/ ModuleLoad
    \/ \E u \in Users, arg \in PathArgs : ApiRemoveTracking(u, arg)

SpecRepair ==
    Init /\ [][NextRepair]_vars /\ WF_vars(WorkerStep) /\ WF_vars(ModuleLoad)

\* Cancellation through the cancel route.
NextCancel ==
    \/ \E u \in Users, b \in Books : ApiDownload(u, b)
    \/ \E id \in Ids, s \in Statuses : WorkerReport(id, s)
    \/ \E id \in Ids : WorkerObserveCancel(id)
    \/ \E b \in Books : LiveEvict(b)
    \/ \E b \in Books : ApiCancelDownload(b)

SpecCancel == Init /\ [][NextCancel]_vars

\* The status view with the data of the live entries.
NextEnrich ==
    \/ \E u \in Users, b \in Books : ApiDownload(u, b)
    \/ \E id \in Ids, s \in Statuses : WorkerReport(id, s)
    \/ \E b \in Books : LiveEvict(b)
    \/ \E u \in Users, q \in QueueData : ApiUserDownloadStatusData(u, q)
    \/ \E u \in Users, q \in QueueData : ApiUserDownloadStatusAppData(u, q)

SpecEnrich == Init /\ [][NextEnrich]_vars

\* The final_url arguments of the update_download_urls calls considered.
FinalUrlArgs == Urls \cup {NULL, ""}

\* The URL columns among the other writes of the store.
NextUrls ==
    \/ \E u \in Users, b \in Books : RecordDownloadQueued(u, b, "none")
    \/ \E id \in Ids, st \in {"downloading", "completed", "error"} :
           UpdateDownloadStatusKwargs(id, st, NoKwargs)
    \/ \E id \in Ids, url \in FinalUrlArgs : UpdateDownloadUrls(id, url, "none")
    \/ \E id \in Ids : MarkUrlFailed(id, "none")

SpecUrls == Init /\ [][NextUrls]_vars

\* The timestamps update_download_status and the remove-tracking route write.
NextStamp ==
    \/ \E u \in Users, b \in Books : RecordDownloadQueued(u, b, "none")
    \/ \E id \in Ids, st \in Statuses, kw \in KwargSets : UpdateDownloadStatusKwargs(id, st, kw)
    \/ \E u \in Users, arg \in PathArgs : ApiRemoveTracking(u, arg)

SpecStamp == Init /\ [][NextStamp]_vars

\* Deletion of rows among the other writes of the store.
NextClear ==
    \/ \E u \in Users, b \in Books : ApiDownload(u, b)
    \/ \E id \in Ids : UpdateDownloadStatusKwargs(id, "completed", NoKwargs)
    \/ \E u \in Users, b \in Books : ApiRemoveTracking(u, b)
    \/ \E u \in Users : ClearUserDownloadHistory(u)
    \/ \E t \in DaysOfMonth, d \in DaysOld, older \in SUBSET Ids : CleanupOldRecords(t, d, older)

SpecClear == Init /\ [][NextClear]_vars

\* Concurrent calls of is_rate_limited.
NextRate ==
    \/ Tick
    \/ \E t \in Threads, e \in Endpoints : EnterCall(t, e)
    \/ \E t \in Threads : CleanupCheck(t)
    \/ \E t \in Threads : CleanupExpired(t)
    \/ \E t \in Threads : CleanupStamp(t)
    \/ \E t \in Threads : CheckLimit(t)

SpecRate == Init /\ [][NextRate]_vars

\* ================================================================ claims
status_of(i) == download_history[i].status
owner_of(i) == download_history[i].username

\* C1: terminal statuses are absorbing in the durable store: once a record's
\* status is completed, error or cancelled, no later operation changes it.
C1_TerminalAbsorbing ==
    [][\A i \in Ids :
          download_history[i].status \in {"completed", "error", "cancelled"}
          => download_history'[i].status = download_history[i].status]_vars

\* C2: once a record's status is cancelled, a later success callback
\* update_download_status(record_id, 'completed') leaves it cancelled.
C2_CancelledRejectsCompleted ==
    [][\A i \in Ids :
          (/\ download_history[i].status = "cancelled"
           /\ lastOp'.name = "update_download_status"
           /\ lastOp'.id = i
           /\ lastOp'.arg = "completed")
          => download_history'[i].status = "cancelled"]_vars

\* Position of a status along queued -> processing -> downloading -> waiting
\* -> {completed, error, cancelled}.
StatusRank(s) ==
    CASE s = "queued" -> 0
      [] s = "processing" -> 1
      [] s = "downloading" -> 2
      [] s = "waiting" -> 3
      [] OTHER -> 4

\* C3: the status stored for a record never moves backward along the chain,
\* the only backward step allowed being waiting -> downloading.
C3_StatusNeverBackward ==
    [][\A i \in Ids :
          \/ StatusRank(download_history'[i].status) >= StatusRank(download_history[i].status)
          \/ (download_history[i].status = "waiting"
              /\ download_history'[i].status = "downloading")]_vars

\* C4: the ownership lookup of get_download_record(record_id, username)
\* returns nothing when the record belongs to another user, and the record
\* when it belongs to the user supplied.
C4_OwnershipLookup ==
    lastOp.name = "redownload_direct" =>
        \A i \in Ids :
            i = lastOp.id =>
                /\ (owner_of(i) # lastOp.user => ret.record = {} /\ ret.code = 404)
                /\ (owner_of(i) = lastOp.user => ret.record = {i} /\ ret.code # 404)

\* C4 witness: a user asked for an existing record of another user and was
\* refused.
C4_Witness ==
    /\ lastOp.name = "redownload_direct"
    /\ lastOp.id \in Ids
    /\ owner_of(lastOp.id) # lastOp.user
    /\ ret.record = {}

\* C5: a remove-tracking request of user A changes the status of no record
\* whose username is not A.
C5_RemoveTrackingOnlyOwn ==
    [][lastOp'.name = "remove_tracking" =>
          \A i \in Ids :
              download_history[i].username # lastOp'.user
              => download_history'[i].status = download_history[i].status]_vars

\* C6: cleanup_phantom_downloads_on_startup turns every record in
\* downloading/processing/waiting into cancelled with an error_message,
\* returns their number, leaves every other record unchanged, and run again
\* right away returns 0 and changes nothing.
C6_StartupCleanupTotalIdempotent ==
    [][lastOp'.name = "cleanup_phantom_downloads_on_startup" =>
          LET stuck == {i \in Ids :
                          download_history[i].status \in {"downloading", "processing", "waiting"}}
          IN /\ \A i \in stuck :
                    /\ download_history'[i].status = "cancelled"
                    /\ download_history'[i].error_message # NULL
             /\ ret'.cancelled_count = Cardinality(stuck)
             /\ DOMAIN download_history' = Ids
             /\ \A i \in Ids \ stuck : download_history'[i] = download_history[i]
             /\ (lastOp.name = "cleanup_phantom_downloads_on_startup"
                 => ret'.cancelled_count = 0 /\ download_history' = download_history)]_vars

\* C6 witness: a cleanup that cancelled one stuck record and kept a finished
\* one.
C6_Witness ==
    /\ lastOp.name = "cleanup_phantom_downloads_on_startup"
    /\ ret.cancelled_count = 1
    /\ \E i, j \in Ids :
          /\ status_of(i) = "cancelled"
          /\ download_history[i].error_message = StartupMsg
          /\ status_of(j) = "completed"

\* C7: after startup reconciliation no record is left in a non-terminal
\* status (queued, processing, downloading or waiting).
C7_NoNonTerminalAfterStartup ==
    lastOp.name = "cleanup_phantom_downloads_on_startup" =>
        \A i \in Ids : status_of(i) \in {"completed", "error", "cancelled"}

\* C8: no client reading /api/downloads/status or /api/downloads/history
\* sees a downloading/processing/waiting status written by a previous
\* process: the startup cleanup has run before the first read is served.
C8_NoStaleActiveStatusServed ==
    /\ lastOp.name = "downloads_history" =>
          \A e \in ret :
              ~(e.row \in stale /\ e.status \in {"downloading", "processing", "waiting"})
    /\ lastOp.name = "downloads_status" =>
          \A s \in Statuses : \A e \in ret[s] :
              ~(e.row \in stale /\ e.status \in {"downloading", "processing", "waiting"})

\* C9: in the view of /api/downloads/status a record in a terminal bucket is
\* omitted if and only if its book_id is a key of a live bucket among
\* queued, downloading, processing, waiting, available.
C9_SuppressionIffLive ==
    lastOp.name = "downloads_status" =>
        \A i \in Ids :
            (owner_of(i) = lastOp.user
             /\ status_of(i) \in {"completed", "error", "cancelled"})
            => ((\A e \in ret[status_of(i)] : e.row # i)
                <=> live[download_history[i].book_id]
                        \in {"queued", "downloading", "processing", "waiting", "available"})

\* C10: after mark_url_failed has been applied to a record,
\* get_redownloadable_books never returns it again, whatever store
\* operations follow.
C10_FailedUrlNeverRedownloadable ==
    \A i \in url_failed \cap Ids :
        \A u \in Users : i \notin get_redownloadable_books(download_history, u, NULL)

\* Whether a request POST /api/downloads/redownload/<id> of user u reaches the
\* network fetch: the route's ownership and URL checks pass, then
\* direct_redownload's own guard.
fetch_performed(dh, id, u) ==
    /\ \E i \in get_download_record(dh, id, u) : dh[i].final_download_url # NULL
    /\ redownload_attempted(dh, id)

\* C11: once the fetch of a record's URL has failed (mark_url_failed applied,
\* can_retry_direct false), a later retry through the redownload endpoint
\* returns a failure and performs no network fetch.
C11_RetryAfterFailureNoFetch ==
    [][(/\ lastOp'.name = "redownload_direct"
        /\ lastOp'.id \in url_failed
        /\ ~download_history[lastOp'.id].can_retry_direct) =>
          /\ ret'.code # 200
          /\ ~fetch_performed(download_history, lastOp'.id, lastOp'.user)]_vars

\* C12: direct_redownload never raises to its caller, whatever fails (record
\* or URL missing, fetch false, fetch raising, a storage fault while the
\* record is loaded or the failure recorded): it returns false, and whenever
\* a fetch was attempted and failed the record ends with can_retry_direct
\* false and an error_message.
C12_DirectRedownloadNeverRaises ==
    [][lastOp'.name = "direct_redownload" =>
          /\ ~ret'.raised
          /\ ((~redownload_attempted(download_history, lastOp'.id) \/ lastOp'.arg # "ok")
              => ret'.value = FALSE)
          /\ ((redownload_attempted(download_history, lastOp'.id) /\ lastOp'.arg # "ok")
              => /\ ~download_history'[lastOp'.id].can_retry_direct
                 /\ download_history'[lastOp'.id].error_message # NULL)]_vars

\* The write calls of the store.
StoreWrites == {"record_download_queued", "store_update_download_status",
                "store_update_download_urls", "store_mark_url_failed"}

\* C16: a store write that raises leaves download_history exactly as it was
\* before the call, and record_download_queued either returns the id of a row
\* that now exists or raises with no row inserted.
C16_WritesAtomic ==
    [][lastOp'.name \in StoreWrites =>
          /\ (ret'.raised => download_history' = download_history)
          /\ (lastOp'.name = "record_download_queued" =>
                IF ret'.raised
                THEN DOMAIN download_history' = DOMAIN download_history
                ELSE ret'.value \in DOMAIN download_history' \ DOMAIN download_history)]_vars

\* C13: cancel_phantom_downloads(book_id) sets to cancelled exactly the
\* records of that book_id whose status is queued, processing, downloading
\* or waiting, returns their number, and leaves every record of another
\* book_id and every terminal record unchanged.
C13_CancelPhantomFrame ==
    [][lastOp'.name = "cancel_phantom_downloads" =>
          LET hit == {i \in Ids :
                        /\ download_history[i].book_id = lastOp'.arg
                        /\ download_history[i].status
                               \in {"queued", "processing", "downloading", "waiting"}}
          IN /\ DOMAIN download_history' = Ids
             /\ \A i \in hit : download_history'[i].status = "cancelled"
             /\ ret' = Cardinality(hit)
             /\ \A i \in Ids \ hit : download_history'[i] = download_history[i]]_vars

\* C13 witness: a call that cancelled one record of its book and left an
\* active record of another book as it was.
C13_Witness ==
    /\ lastOp.name = "cancel_phantom_downloads"
    /\ ret = 1
    /\ \E i, j \in Ids :
          /\ download_history[i].book_id = lastOp.arg
          /\ download_history[i].error_message = PhantomMsg
          /\ download_history[j].book_id # lastOp.arg
          /\ status_of(j) \in ActiveStatuses

\* C14: for a record r owned by the caller, remove-tracking called with r's
\* numeric id and remove-tracking called with r's book_id lead from the same
\* state to the same durable statuses and the same LiveQueue contents.
C14_RemoveTrackingPathsConverge ==
    \A i \in Ids :
        LET u == owner_of(i)
            b == download_history[i].book_id
            by_id == cancel_by_id(download_history, i, u)
            by_hash == cancel_phantom_downloads(download_history, b)
        IN /\ \A j \in Ids : by_id[j].status = by_hash[j].status
           /\ remove_from_tracking(live, download_history[i].book_id)
                  = remove_from_tracking(live, b)

\* C15: after an update_download_status call that sets a record to
\* completed, error or cancelled, the cached user_stats row of the record's
\* owner equals the aggregate computed from that user's download_history
\* rows.
C15_StatsRecomputedOnTerminal ==
    [][(lastOp'.name = "update_download_status" /\ lastOp'.arg \in FinalStatuses) =>
          LET u == download_history'[lastOp'.id].username
          IN /\ u \in DOMAIN user_stats'
             /\ user_stats'[u] = calc_user_stats(download_history', u)]_vars

\* A record that claims an active status while the live queue holds no entry
\* for its book.
Phantom(i) ==
    /\ i \in Ids
    /\ status_of(i) \in {"queued", "processing", "downloading", "waiting"}
    /\ live[download_history[i].book_id] = NULL

\* The repair routines.
RepairOps == {"remove_tracking", "cleanup_phantom_downloads_on_startup", "cancel_phantom_downloads"}

\* C17: every record that claims an active status while LiveQueue has no
\* entry for its book_id is eventually set to cancelled, and no repair routine
\* sets such a record to completed.
C17_PhantomEventuallyCancelled ==
    /\ \A i \in 1..MaxRecords :
          Phantom(i) ~> (i \in Ids /\ status_of(i) = "cancelled")
    /\ [][\A i \in Ids :
             (Phantom(i) /\ lastOp'.name \in RepairOps)
             => download_history'[i].status # "completed"]_vars

\* The rows get_user_downloads returns to a user for one book.
user_book_rows(dh, u, b) ==
    {j \in get_user_downloads(dh, u, NULL) : dh[j].book_id = b}

lookup_usernames(dh, download_id, username) ==
    LET record == get_download_record(dh, download_id, username)
    IN {username} \cup
       (IF \E i \in record : dh[i].final_download_url # NULL THEN {NULL} ELSE {})

\* C20: every get_download_record call made while serving a redownload
\* request (the route's own, and those inside direct_redownload and
\* update_download_status) passes the session username; the lookup by id
\* alone is never executed on behalf of a user-facing request.
C20_LookupsPassSessionUser ==
    [][lastOp'.name = "redownload_direct" =>
          lookup_usernames(download_history, lastOp'.id, lastOp'.user)
              = {lastOp'.user}]_vars

\* C21: in any response of /api/downloads/status no book_id appears both in
\* a non-terminal bucket (queued, processing, downloading, waiting) and in a
\* terminal bucket (completed, error, cancelled).
C21_NoBookActiveAndFinished ==
    lastOp.name = "downloads_status" =>
        \A s \in ActiveStatuses, t \in FinalStatuses :
            \A e \in ret[s], f \in ret[t] : e.id # f.id

\* The keys of the live data C22 names.
LiveKeys == {"progress", "download_speed", "eta_seconds", "wait_time", "wait_start", "error"}

\* C22: for each durable record in a non-terminal bucket s, the entry of
\* the status response carries the progress, download_speed, eta_seconds,
\* wait_time, wait_start and error of the live entry live[s][book_id] when
\* that entry exists; when LiveQueue holds no entry for the book in bucket s
\* the entry has progress 0 and the durable title and author.
C22_EnrichmentOfNonTerminal ==
    lastOp.name \in {"downloads_status_routes", "downloads_status_app"} =>
        \A s \in ActiveStatuses : \A e \in ret[s] :
            IF live[e.id] = s
            THEN \A k \in LiveKeys : k \in DOMAIN e /\ e[k] = lastOp.arg[k]
            ELSE /\ e.progress = 0
                 /\ e.title = download_history[e.row].book_title
                 /\ e.author = download_history[e.row].book_author

\* Blank live values, and the placeholders of a live title or author.
Blank == {NULL, "", " ", "  "}
Placeholders == {"Unknown", "Unknown Author"}

\* C23 (as stated): in the status response a record's title (respectively
\* author) is replaced by the live value only if the live value is non-blank
\* and is not one of the placeholders "Unknown" and "Unknown Author";
\* otherwise the durable book_title (book_author) is returned.
C23_DurableMetadataAuthoritative ==
    lastOp.name \in {"downloads_status_routes", "downloads_status_app"} =>
        \A s \in ActiveStatuses : \A e \in ret[s] :
            /\ e.title # download_history[e.row].book_title =>
                  /\ e.title = lastOp.arg.title
                  /\ lastOp.arg.title \notin Blank \cup Placeholders
            /\ e.author # download_history[e.row].book_author =>
                  /\ e.author = lastOp.arg.author
                  /\ lastOp.arg.author \notin Blank \cup Placeholders

\* C23 (amended): the title is replaced by the live title only if that is
\* non-blank and is not "Unknown", the author by the live author only if
\* that is non-blank and is not "Unknown Author", and only for a record whose
\* book has a live entry in the record's own bucket; otherwise the durable
\* book_title (book_author) is returned.
C23_DurableMetadataPerField ==
    lastOp.name \in {"downloads_status_routes", "downloads_status_app"} =>
        \A s \in ActiveStatuses : \A e \in ret[s] :
            /\ e.title # download_history[e.row].book_title =>
                  /\ e.title = lastOp.arg.title
                  /\ live[e.id] = s
                  /\ lastOp.arg.title \notin Blank \cup {"Unknown"}
            /\ e.author # download_history[e.row].book_author =>
                  /\ e.author = lastOp.arg.author
                  /\ live[e.id] = s
                  /\ lastOp.arg.author \notin Blank \cup {"Unknown Author"}

\* C23 witness: a response of routes/downloads.py whose entry took the live
\* progress while the live title and author, both placeholders, were not
\* taken.
C23_Witness ==
    /\ lastOp.name = "downloads_status_routes"
    /\ lastOp.arg.title = "Unknown" /\ lastOp.arg.author = "Unknown Author"
    /\ \E s \in ActiveStatuses : \E e \in ret[s] :
          /\ live[e.id] = s
          /\ e.progress = lastOp.arg.progress
          /\ e.title = download_history[e.row].book_title
          /\ e.author = download_history[e.row].book_author

\* C24: started_at is stamped once: the first write that moves a record into
\* downloading sets started_at, and no later write (in particular a second
\* transition into downloading) assigns started_at again.
C24_StartedAtStampedOnce ==
    [][lastOp'.name = "update_download_status_kwargs" =>
          /\ (lastOp'.arg.status = "downloading"
              /\ download_history[lastOp'.id].started_at = NULL
              /\ "started_at" \notin DOMAIN lastOp'.arg.kwargs)
             => download_history'[lastOp'.id].started_at # NULL
          /\ download_history[lastOp'.id].started_at # NULL
             => "started_at" \notin update_fields(lastOp'.arg.status, lastOp'.arg.kwargs)]_vars

\* C25: in every reachable state a record whose status is completed, error
\* or cancelled has a non-null completed_at, whatever keyword fields the
\* caller passed to update_download_status, and once set completed_at is not
\* assigned again by later writes.
C25_CompletedAtStamped ==
    [][/\ \A i \in DOMAIN download_history' :
              download_history'[i].status \in FinalStatuses
              => download_history'[i].completed_at # NULL
       /\ lastOp'.name = "update_download_status_kwargs" =>
             (download_history[lastOp'.id].completed_at # NULL
              => "completed_at" \notin update_fields(lastOp'.arg.status, lastOp'.arg.kwargs))]_vars

\* C26: rows of download_history are removed only by
\* clear_user_download_history and cleanup_old_records;
\* clear_user_download_history(u) deletes exactly the rows whose username is
\* u, returns their number and leaves every other user's rows unchanged;
\* cleanup_old_records never deletes a row whose status is non-terminal.
C26_RowsRemovedOnlyByClearAndCleanup ==
    [][/\ (DOMAIN download_history \ DOMAIN download_history' # {})
          => lastOp'.name \in {"clear_user_download_history", "cleanup_old_records"}
       /\ lastOp'.name = "clear_user_download_history" =>
             /\ DOMAIN download_history' =
                   {i \in Ids : download_history[i].username # lastOp'.user}
             /\ ret' = Cardinality({i \in Ids : download_history[i].username = lastOp'.user})
             /\ \A i \in DOMAIN download_history' : download_history'[i] = download_history[i]
       /\ lastOp'.name = "cleanup_old_records" =>
             /\ DOMAIN download_history' \subseteq Ids
             /\ \A i \in Ids \ DOMAIN download_history' :
                   download_history[i].status \in FinalStatuses
             /\ \A i \in DOMAIN download_history' : download_history'[i] = download_history[i]
      ]_vars

\* C26 witness: of two rows queued, clear_user_download_history has deleted
\* the one of its user and the row of the other user is still there.
C26_Witness ==
    /\ lastOp.name = "clear_user_download_history"
    /\ ret = 1
    /\ last_id = 2
    /\ \E i \in Ids : download_history[i].username # lastOp.user
    /\ \A i \in Ids : download_history[i].username # lastOp.user

\* C27: update_download_urls with a final_url sets final_download_url to it,
\* sets can_retry_direct to true and stamps url_discovered_at; called without
\* a final_url it leaves the three columns unchanged; in both cases the
\* record's status is unchanged.
C27_UpdateUrlsFrame ==
    [][lastOp'.name = "store_update_download_urls" =>
          LET old == download_history[lastOp'.id]
              new == download_history'[lastOp'.id]
          IN /\ new.status = old.status
             /\ IF lastOp'.arg \notin {NULL, ""}
                THEN /\ new.final_download_url = lastOp'.arg
                     /\ new.can_retry_direct = TRUE
                     /\ new.url_discovered_at # NULL
                ELSE /\ new.final_download_url = old.final_download_url
                     /\ new.can_retry_direct = old.can_retry_direct
                     /\ new.url_discovered_at = old.url_discovered_at]_vars

\* C27 witness: update_download_urls has stored a URL on a completed record
\* whose direct retry had failed, and the retry flag is set again.
C27_Witness ==
    /\ lastOp.name = "store_update_download_urls"
    /\ lastOp.arg \in Urls
    /\ lastOp.id \in url_failed
    /\ download_history[lastOp.id].status = "completed"
    /\ download_history[lastOp.id].final_download_url = lastOp.arg
    /\ download_history[lastOp.id].can_retry_direct
    /\ download_history[lastOp.id].url_discovered_at = Stamped

\* C28: in every reachable state of the store, a record with can_retry_direct
\* true has a non-null final_download_url.
C28_RetryFlagImpliesUrl ==
    \A i \in Ids :
        download_history[i].can_retry_direct => download_history[i].final_download_url # NULL

\* C28 witness: a record in error whose flag is set and whose URL is stored,
\* after a call of update_download_urls without a final_url.
C28_Witness ==
    /\ lastOp.name = "store_update_download_urls"
    /\ lastOp.arg \in {NULL, ""}
    /\ download_history[lastOp.id].status = "error"
    /\ download_history[lastOp.id].can_retry_direct
    /\ download_history[lastOp.id].final_download_url \in Urls

\* The record a live entry was queued with: the latest record of its book.
queued_with(dh, b) ==
    {i \in DOMAIN dh : dh[i].book_id = b /\ \A j \in DOMAIN dh : dh[j].book_id = b => j <= i}

\* The live queue as it would be had only this user queued books: the
\* entries queued with a record of the user.
own_live(dh, lv, username) ==
    [b \in DOMAIN lv |->
        IF \E i \in queued_with(dh, b) : dh[i].username = username
        THEN lv[b] ELSE NULL]

\* C29: the response of /api/downloads/status for a user is the one the
\* same durable records of that user and the live entries of that user's own
\* active downloads give, whatever books other users have queued.
C29_ViewIndependentOfOthers ==
    lastOp.name = "downloads_status" =>
        ret = IF lastOp.arg = "routes"
              THEN status_view_routes(download_history,
                       own_live(download_history, live, lastOp.user), lastOp.user)
              ELSE status_view_app(download_history,
                       own_live(download_history, live, lastOp.user), lastOp.user)

\* The calls of an endpoint answered 'not limited' in the window that ends
\* at an instant.
admitted_in_window(e, i) ==
    count_in(admitted[e], {j \in Instants : i - Limits[e].window_seconds < j /\ j <= i})

\* C30: under any interleaving of concurrent is_rate_limited calls, for every
\* endpoint the number of calls answered 'not limited' within any span of
\* window_seconds never exceeds max_requests, and a call answered 'limited'
\* adds no timestamp.
C30_RateLimiterWindowBound ==
    [][/\ \A e \in Endpoints, i \in Instants :
              admitted[e]'[i] > 0 => admitted_in_window(e, i)' <= Limits[e].max_requests
       /\ \A t \in Threads :
              (calls[t].pc = "main" /\ calls'[t].pc = "idle" /\ calls'[t].limited)
              => /\ admitted' = admitted
                 /\ len(requests'[calls[t].endpoint]) <= len(requests[calls[t].endpoint])
      ]_vars

====
